---- MODULE Spec2Model ----
(***************************************************************************)
(* The user identity and credential-lifecycle service of the AI Data       *)
(* Assistant: services/user_service.py (UserService), models/user.py       *)
(* (User, PasswordResetToken), auth/login.py (authenticate_with_database)  *)
(* and the maintenance script fix_admins.py, over one credential store.    *)
(* Time is counted in hours.                                               *)
(***************************************************************************)
EXTENDS Integers, Sequences, FiniteSets, TLC

\* ------------------------------------------------------------------------
\* Bounds of the model
\* ------------------------------------------------------------------------
MaxTicks == 2
MaxUuid == 2
MaxSessions == 2
MaxAnalyses == 1

\* ------------------------------------------------------------------------
\* Inputs
\* ------------------------------------------------------------------------
Usernames == {"admin", "richard"}
Emails == {"admin@example.com", "richard"}
Passwords == {"admin123", "richard09"}
Salts == {1, 2}
Tokens == 1..MaxUuid
TickSteps == {1, 24}
\* what a visitor may type as a username: the names above, one that is too
\* short and one with a blank in it
TypedUsernames == Usernames \cup {"ab", "r d"}

\* ------------------------------------------------------------------------
\* Program constants
\* ------------------------------------------------------------------------
VerificationTTL == 24
\* the reset token lives as long as the verification token
ResetTTL_AsVerification == VerificationTTL
ResetTTL == 1
SessionTTL == 720
NoToken == 0
NoTime == -1
NoUser == 0

MsgUserCreated == "User created successfully"
MsgUsernameExists == "Username already exists"
MsgEmailRegistered == "Email already registered"
MsgIntegrity == "User with this information already exists"
MsgCreateError == "An error occurred during user creation"
MsgAuthOk == "Authentication successful"
MsgInvalidCredentials == "Invalid username or password"
MsgAuthUnavailable == "Authentication service unavailable"
MsgVerified == "Email verified successfully"
MsgInvalidVerificationToken == "Invalid verification token"
MsgVerificationExpired == "Verification token has expired"
MsgAlreadyVerified == "Email already verified"
MsgVerifyUnavailable == "Verification service unavailable"
MsgResetTokenCreated == "Password reset token created"
MsgNoAccount == "No account found with this email"
MsgVerifyFirst == "Please verify your email first"
MsgResetUnavailable == "Password reset service unavailable"
MsgPasswordReset == "Password reset successfully"
MsgInvalidResetToken == "Invalid reset token"
MsgResetExpired == "Reset token has expired"
MsgUserNotFound == "User not found"
ErrNone == "none"
ErrEmailNotVerified == "email_not_verified"
ErrAccountDeactivated == "account_deactivated"
ErrServiceUnavailable == "service_unavailable"

VARIABLES
    users,        \* table users: sequence of rows, the id is the index
    resetTokens,  \* table password_reset_tokens: set of rows
    now,          \* datetime.utcnow(), in hours
    nextUuid,     \* the next value of uuid.uuid4() that gets stored
    result,       \* what the last operation was given and what it returned
    inflight,     \* per database session: the create_user call that has
                  \* passed its existence checks and has not committed yet
    page,         \* the page that ran last: whether the dispatcher took the
                  \* email and the kind of notice the page shows
    userSessions, \* table user_sessions: set of rows
    dirty,        \* the changes that the operation that ran last left in
                  \* its database session, neither committed nor rolled back
    session_state, \* st.session_state of the browser session that uses the
                  \* app
    unit          \* the unit of work get_db_session opened last, and what
                  \* the units of work have stored

vars ==
    <<users, resetTokens, now, nextUuid, result,
      inflight, page, userSessions, dirty, session_state,
      unit>>

\* ------------------------------------------------------------------------
\* Password hashing (bcrypt): the salt is embedded in the hash
\* ------------------------------------------------------------------------
\* the digest does not depend on the password
hashpw_AnyPassword(password, salt) == [salt |-> salt, digest |-> "admin123"]

hashpw(password, salt) == [salt |-> salt, digest |-> password]

\* every password fits every hash
checkpw_Always(password, hashed) == TRUE

checkpw(password, hashed) == hashpw(password, hashed.salt) = hashed

\* ------------------------------------------------------------------------
\* models/user.py
\* ------------------------------------------------------------------------
User(username, email, password_hash) ==
    [username |-> username, email |-> email, password_hash |-> password_hash,
     is_verified |-> FALSE, verification_token |-> NoToken,
     verification_expires |-> NoTime, created_at |-> NoTime,
     last_login |-> NoTime, is_active |-> TRUE]

\* the expiry is set but no token is stored
generate_verification_token_NoToken(u, uuid, t) ==
    [u EXCEPT !.verification_expires = t + VerificationTTL]

generate_verification_token(u, uuid, t) ==
    [u EXCEPT !.verification_token = uuid,
              !.verification_expires = t + VerificationTTL]

\* the token already counts as expired at its expiry instant
is_verification_token_expired_AtExpiry(u, t) ==
    IF u.verification_expires = NoTime THEN TRUE
    ELSE t >= u.verification_expires

is_verification_token_expired(u, t) ==
    IF u.verification_expires = NoTime THEN TRUE
    ELSE t > u.verification_expires

\* the token is left on the row
mark_verified_KeepToken(u) == [u EXCEPT !.is_verified = TRUE]

mark_verified(u) ==
    [u EXCEPT !.is_verified = TRUE, !.verification_token = NoToken,
              !.verification_expires = NoTime]

update_last_login(u, t) == [u EXCEPT !.last_login = t]

PasswordResetToken(user_id, token, expires_at) ==
    [user_id |-> user_id, token |-> token, expires_at |-> expires_at]

UserSession(user_id, session_token, expires_at) ==
    [user_id |-> user_id, session_token |-> session_token,
     expires_at |-> expires_at]

\* the session already counts as expired at its expiry instant
UserSession_is_expired_AtExpiry(user_session, t) ==
    t >= user_session.expires_at

\* UserSession.is_expired
UserSession_is_expired(user_session, t) == t > user_session.expires_at

\* the token already counts as expired at its expiry instant
is_expired_AtExpiry(tok, t) == t >= tok.expires_at

is_expired(tok, t) == t > tok.expires_at

\* ------------------------------------------------------------------------
\* Queries
\* ------------------------------------------------------------------------
UserIds == 1..Len(users)

ByUsername(username) == {i \in UserIds : users[i].username = username}

\* the email looked up in the username column
ByEmail_UsernameColumn(email) ==
    {i \in UserIds : users[i].username = email}

ByEmail(email) == {i \in UserIds : users[i].email = email}

ByIdentifier(x) ==
    {i \in UserIds : users[i].username = x \/ users[i].email = x}

\* the token is not compared: every row matches
ByVerificationToken_AnyRow(token) == UserIds

ByVerificationToken(token) ==
    {i \in UserIds : users[i].verification_token = token}

ResetTokenRows(token) == {r \in resetTokens : r.token = token}

\* the unique indexes of table users: would inserting row u raise
\* IntegrityError
UniqueViolation(u) ==
    \E i \in UserIds :
       \/ users[i].username = u.username
       \/ users[i].email = u.email
       \/ /\ u.verification_token # NoToken
          /\ users[i].verification_token = u.verification_token

\* the row is not deleted
delete_Keep(rows, row) == rows

\* Session.delete(row) followed by commit
delete(rows, row) == rows \ {row}

\* the database sessions that run create_user at the same time, and the
\* mark of a session that runs none
Sessions == 1..MaxSessions

Idle == [username |-> "", email |-> ""]

\* a change to a column of row user_id of table users that a session holds
Change(user_id, column) == [user_id |-> user_id, column |-> column]

\* the rows a failed commit leaves behind
rollback_KeepAdded(committed, added) == added

\* Session.rollback(): the rows added since the last commit are dropped
rollback(committed, added) == committed

Page(name, email_sent, shown) ==
    [name |-> name, email_sent |-> email_sent, shown |-> shown]

\* the page reports success although the email could not be sent
notice_NoWarning(success, email_sent) ==
    IF success THEN "success" ELSE "error"

\* the notice a page shows after an operation that is followed by an email:
\* st.success, st.warning or st.error
notice(success, email_sent) ==
    IF ~success THEN "error"
    ELSE IF email_sent THEN "success"
    ELSE "warning"

\* the characters of a typed username
Characters(username) ==
    CASE username = "admin" -> {"a", "d", "m", "i", "n"}
      [] username = "richard" -> {"r", "i", "c", "h", "a", "d"}
      [] username = "ab" -> {"a", "b"}
      [] username = "r d" -> {"r", " ", "d"}

\* the character class [a-zA-Z0-9_-]
UsernameCharacters ==
    {"a", "b", "c", "d", "e", "f", "g", "h", "i", "j", "k", "l", "m",
     "n", "o", "p", "q", "r", "s", "t", "u", "v", "w", "x", "y", "z",
     "A", "B", "C", "D", "E", "F", "G", "H", "I", "J", "K", "L", "M",
     "N", "O", "P", "Q", "R", "S", "T", "U", "V", "W", "X", "Y", "Z",
     "0", "1", "2", "3", "4", "5", "6", "7", "8", "9", "_", "-"}

MsgUsernameValid == "Username is valid"

\* auth.registration.validate_username: the message it returns
validate_username(username) ==
    IF Len(username) < 3
    THEN "Username must be at least 3 characters long"
    ELSE IF Len(username) > 20
    THEN "Username must be less than 20 characters"
    ELSE IF ~(Characters(username) \subseteq UsernameCharacters)
    THEN "Username can only contain letters, numbers, underscores, and hyphens"
    ELSE MsgUsernameValid

\* ------------------------------------------------------------------------
\* app.py: the Streamlit session state of one browser session
\* ------------------------------------------------------------------------
None == "None"

\* the files a user may upload, by identity: name and size
Files == {"a.csv_1", "b.xlsx_2"}

\* the user a script run works for: the identifier typed at login and the
\* name the authenticator returned
who(state) == <<state.username, state.name>>

\* no dataset loaded
NoDf == [file_id |-> None, by |-> <<None, None>>]

\* app.initialize_session_state: the default of every key. The dataset,
\* every chat entry, every counted analysis and every processed file carry
\* the user they were produced for (by); analysis_count is kept as the
\* list of the analyses counted, the counter being its length; seen
\* remembers for whom a dataset was loaded in this browser session
session_vars ==
    [df |-> NoDf, chat_history |-> <<>>, analysis_count |-> <<>>,
     processed_files |-> {}, current_user |-> None,
     authentication_status |-> None, name |-> None, username |-> None,
     seen |-> {}]

\* app.initialize_session_state when the keys in missing are not in the
\* session state
initialize_session_state(state, missing) ==
    [var \in DOMAIN state |->
        IF var \in missing THEN session_vars[var] ELSE state[var]]

\* the data of the previous user stays in the session state
reset_user_session_KeepData(state, username) ==
    [state EXCEPT !.current_user = username]

\* app.reset_user_session
reset_user_session(state, username) ==
    IF state.current_user # username
    THEN [state EXCEPT !.current_user = username, !.df = NoDf,
                       !.chat_history = <<>>, !.analysis_count = <<>>,
                       !.processed_files = {}]
    ELSE state

\* the file id stays in the set
remove_Keep(processed_files, file_id) == processed_files

\* set.remove(file_id)
remove(processed_files, file_id) ==
    {f \in processed_files : f.file_id # file_id}

\* app.handle_file_upload; loaded tells whether pandas reads the file
handle_file_upload(state, uploaded_file, loaded) ==
    IF uploaded_file # None /\ state.authentication_status = "True"
    THEN IF uploaded_file \notin {f.file_id : f \in state.processed_files}
         THEN LET added ==
                      [state EXCEPT !.processed_files =
                          @ \cup {[file_id |-> uploaded_file,
                                   by |-> who(state)]}]
              IN IF loaded
                 THEN [added EXCEPT !.df = [file_id |-> uploaded_file,
                                            by |-> who(state)],
                                    !.seen = @ \cup {who(state)}]
                 ELSE [added EXCEPT !.processed_files =
                                       remove(@, uploaded_file)]
         ELSE state
    ELSE state

\* the static credentials of config.toml: none, or one entry
NoConfig == {}
StaticConfig ==
    {[username |-> "richard", password |-> "richard09", name |-> "Richard"]}
Configs == {NoConfig, StaticConfig}

\* auth.login.authenticate_with_config: the entries that fit
authenticate_with_config(username, password, config) ==
    {user_data \in config :
        user_data.username = username /\ user_data.password = password}

\* ------------------------------------------------------------------------
\* config/database.py: the unit of work of get_db_session
\* ------------------------------------------------------------------------
\* what the body of a "with get_db_session() as db" block may change
BodyChanges == {"mark_verified", "last_login", "password_hash"}

\* how the body of the block ends: normally, by raising an Exception, or by
\* raising a BaseException that is none (st.stop(), st.rerun())
BodyEnds == {None, "Exception", "BaseException"}

\* no session was ever opened
NoUnit ==
    [phase |-> "none", pending |-> {}, persisted |-> {}, closes |-> 0,
     outcome |-> None]

\* the commit stores nothing
commit_Nothing(persisted, pending) == persisted

\* Session.commit(): the pending changes are stored
commit(persisted, pending) == persisted \cup pending

\* a typed email address cut at "@" and at the last "." behind it
Split(email) ==
    CASE email = "admin@example.com" -> <<"admin", "example", "com">>
      [] email = "richard" -> <<"richard">>

\* auth.registration.validate_email: something, "@", something, "." and
\* two letters or more
validate_email(email) ==
    /\ Len(Split(email)) = 3
    /\ \A i \in 1..3 : Len(Split(email)[i]) >= 1
    /\ Len(Split(email)[3]) >= 2

\* where the store raises during an operation, if it does
Faults == {"none", "query", "commit"}

Result(op, fault, ident, email, pw, token, ok, msg, user) ==
    [op |-> op, fault |-> fault, ident |-> ident, email |-> email, pw |-> pw,
     token |-> token, ok |-> ok, msg |-> msg, user |-> user]

\* .first() of a query without ORDER BY: any matching row, None if none
first(rows) == IF rows = {} THEN {NoUser} ELSE rows

Init ==
    /\ users = <<>>
    /\ resetTokens = {}
    /\ now = 0
    /\ nextUuid = 1
    /\ result = Result("init", "none", "", "", "", NoToken, FALSE, "", NoUser)
    /\ inflight = [s \in Sessions |-> Idle]
    /\ page = Page("", FALSE, "")
    /\ userSessions = {}
    /\ dirty = {}
    /\ session_state = initialize_session_state(session_vars, DOMAIN session_vars)
    /\ unit = NoUnit

\* the number of clock steps that lead to time t
Ticks(t) == (t \div SessionTTL) + ((t % SessionTTL) \div 24) + (t % 24)

\* datetime.utcnow() advances
Tick(d) ==
    /\ Ticks(now + d) <= MaxTicks
    /\ now' = now + d
    /\ result' = Result("tick", "none", "", "", "", NoToken, TRUE, "", NoUser)
    /\ UNCHANGED <<users, resetTokens, nextUuid, inflight>>

\* UserService.create_user
create_user(username, email, password, salt, fault) ==
    LET res(ok, msg, tok, id) ==
            Result("create_user", fault, username, email, "", tok, ok, msg, id)
    IN
    /\ IF fault = "query"
       THEN /\ result' = res(FALSE, MsgCreateError, NoToken, NoUser)
            /\ UNCHANGED <<users, nextUuid>>
       ELSE IF ByUsername(username) # {}
       THEN /\ result' = res(FALSE, MsgUsernameExists, NoToken, NoUser)
            /\ UNCHANGED <<users, nextUuid>>
       ELSE IF ByEmail(email) # {}
       THEN /\ result' = res(FALSE, MsgEmailRegistered, NoToken, NoUser)
            /\ UNCHANGED <<users, nextUuid>>
       ELSE LET u == generate_verification_token(
                         User(username, email, hashpw(password, salt)),
                         nextUuid, now)
                added == Append(users, [u EXCEPT !.created_at = now])
            IN IF fault = "commit"
               THEN /\ result' = res(FALSE, MsgCreateError, NoToken, NoUser)
                    /\ users' = rollback(users, added)
                    /\ UNCHANGED nextUuid
               ELSE IF UniqueViolation(u)
               THEN /\ result' = res(FALSE, MsgIntegrity, NoToken, NoUser)
                    /\ users' = rollback(users, added)
                    /\ UNCHANGED nextUuid
               ELSE /\ nextUuid <= MaxUuid
                    /\ nextUuid' = nextUuid + 1
                    /\ users' = added
                    /\ result' = res(TRUE, MsgUserCreated, NoToken,
                                     Len(users) + 1)
    /\ UNCHANGED <<resetTokens, now, inflight>>

\* UserService.create_user in database session s, up to the end of its
\* existence checks; other sessions may commit before this one goes on
create_user_check(s, username, email, fault) ==
    LET res(msg) ==
            Result("create_user", fault, username, email, "", NoToken, FALSE,
                   msg, NoUser)
    IN
    /\ inflight[s] = Idle
    /\ IF fault = "query"
       THEN /\ result' = res(MsgCreateError)
            /\ UNCHANGED inflight
       ELSE IF ByUsername(username) # {}
       THEN /\ result' = res(MsgUsernameExists)
            /\ UNCHANGED inflight
       ELSE IF ByEmail(email) # {}
       THEN /\ result' = res(MsgEmailRegistered)
            /\ UNCHANGED inflight
       ELSE /\ inflight' = [inflight EXCEPT
                               ![s] = [username |-> username, email |-> email]]
            /\ result' = Result("create_user_check", fault, username, email,
                                "", NoToken, TRUE, "", NoUser)
    /\ UNCHANGED <<users, resetTokens, now, nextUuid>>

\* UserService.create_user in database session s, from the hashing of the
\* password to the return
create_user_commit(s, password, salt, fault) ==
    LET call == inflight[s]
        res(ok, msg, id) ==
            Result("create_user", fault, call.username, call.email, "",
                   NoToken, ok, msg, id)
        u == generate_verification_token(
                 User(call.username, call.email, hashpw(password, salt)),
                 nextUuid, now)
        added == Append(users, [u EXCEPT !.created_at = now])
    IN
    /\ call # Idle
    /\ inflight' = [inflight EXCEPT ![s] = Idle]
    /\ IF fault = "commit"
       THEN /\ result' = res(FALSE, MsgCreateError, NoUser)
            /\ users' = rollback(users, added)
            /\ UNCHANGED nextUuid
       ELSE IF UniqueViolation(u)
       THEN /\ result' = res(FALSE, MsgIntegrity, NoUser)
            /\ users' = rollback(users, added)
            /\ UNCHANGED nextUuid
       ELSE /\ nextUuid <= MaxUuid
            /\ nextUuid' = nextUuid + 1
            /\ users' = added
            /\ result' = res(TRUE, MsgUserCreated, Len(users) + 1)
    /\ UNCHANGED <<resetTokens, now>>

\* UserService.authenticate_user; its except handler returns without a
\* rollback, so the last_login set before a failed commit stays in the
\* session
authenticate_user(username, password, fault) ==
    LET res(ok, msg, id) ==
            Result("authenticate_user", fault, "", "", password, NoToken,
                   ok, msg, id)
    IN
    /\ \E i \in first(ByIdentifier(username)) :
          IF fault = "query"
          THEN /\ result' = res(FALSE, MsgAuthUnavailable, NoUser)
               /\ UNCHANGED users
               /\ dirty' = {}
          ELSE IF i = NoUser
          THEN /\ result' = res(FALSE, MsgInvalidCredentials, NoUser)
               /\ UNCHANGED users
               /\ dirty' = {}
          ELSE IF ~checkpw(password, users[i].password_hash)
          THEN /\ result' = res(FALSE, MsgInvalidCredentials, i)
               /\ UNCHANGED users
               /\ dirty' = {}
          ELSE IF fault = "commit"
          THEN /\ result' = res(FALSE, MsgAuthUnavailable, i)
               /\ UNCHANGED users
               /\ dirty' = {Change(i, "last_login")}
          ELSE /\ users' = [users EXCEPT ![i] = update_last_login(@, now)]
               /\ result' = res(TRUE, MsgAuthOk, i)
               /\ dirty' = {}
    /\ UNCHANGED <<resetTokens, now, nextUuid, inflight>>

\* auth.login.authenticate_with_database
authenticate_with_database(username, password, fault) ==
    LET res(ok, err, id) ==
            Result("authenticate_with_database", fault, "", "", password,
                   NoToken, ok, err, id)
    IN
    /\ \E i \in first(ByIdentifier(username)) :
          IF fault # "none"
          THEN /\ result' = res(FALSE, ErrServiceUnavailable, NoUser)
               /\ UNCHANGED users
          ELSE IF i = NoUser
          THEN /\ result' = res(FALSE, ErrNone, NoUser)
               /\ UNCHANGED users
          ELSE IF ~checkpw(password, users[i].password_hash)
          THEN /\ result' = res(FALSE, ErrNone, i)
               /\ UNCHANGED users
          ELSE IF ~users[i].is_verified
          THEN /\ result' = res(FALSE, ErrEmailNotVerified, i)
               /\ UNCHANGED users
          ELSE IF ~users[i].is_active
          THEN /\ result' = res(FALSE, ErrAccountDeactivated, i)
               /\ UNCHANGED users
          ELSE /\ users' = [users EXCEPT ![i].last_login =
                               IF @ # NoTime THEN @ ELSE users[i].created_at]
               /\ result' = res(TRUE, ErrNone, i)
    /\ UNCHANGED <<resetTokens, now, nextUuid, inflight>>

\* UserService.verify_email
verify_email(token, fault) ==
    LET res(ok, msg, id) ==
            Result("verify_email", fault, "", "", "", token, ok, msg, id)
    IN
    /\ \E i \in first(ByVerificationToken(token)) :
          IF fault = "query"
          THEN /\ result' = res(FALSE, MsgVerifyUnavailable, NoUser)
               /\ UNCHANGED users
          ELSE IF i = NoUser
          THEN /\ result' = res(FALSE, MsgInvalidVerificationToken, NoUser)
               /\ UNCHANGED users
          ELSE IF is_verification_token_expired(users[i], now)
          THEN /\ result' = res(FALSE, MsgVerificationExpired, i)
               /\ UNCHANGED users
          ELSE IF users[i].is_verified
          THEN /\ result' = res(FALSE, MsgAlreadyVerified, i)
               /\ UNCHANGED users
          ELSE IF fault = "commit"
          THEN /\ result' = res(FALSE, MsgVerifyUnavailable, i)
               /\ UNCHANGED users
          ELSE /\ users' = [users EXCEPT ![i] = mark_verified(@)]
               /\ result' = res(TRUE, MsgVerified, i)
    /\ UNCHANGED <<resetTokens, now, nextUuid, inflight>>

\* auth.email_verification.verify_email_token: UserService.verify_email,
\* then the lookup of the user by the same token for the welcome email. The
\* result holds the username handed to the page in ident and the address
\* the welcome email went to in email, "" when none was sent
verify_email_token(token, fault) ==
    LET res(ok, msg, name, mail, id) ==
            Result("verify_email_token", fault, name, mail, "", token, ok,
                   msg, id)
    IN
    /\ \E i \in first(ByVerificationToken(token)) :
          IF fault = "query"
          THEN /\ result' = res(FALSE, MsgVerifyUnavailable, "", "", NoUser)
               /\ UNCHANGED users
          ELSE IF i = NoUser
          THEN /\ result' = res(FALSE, MsgInvalidVerificationToken, "", "",
                                NoUser)
               /\ UNCHANGED users
          ELSE IF is_verification_token_expired(users[i], now)
          THEN /\ result' = res(FALSE, MsgVerificationExpired, "", "", i)
               /\ UNCHANGED users
          ELSE IF users[i].is_verified
          THEN /\ result' = res(FALSE, MsgAlreadyVerified, "", "", i)
               /\ UNCHANGED users
          ELSE IF fault = "commit"
          THEN /\ result' = res(FALSE, MsgVerifyUnavailable, "", "", i)
               /\ UNCHANGED users
          ELSE /\ users' = [users EXCEPT ![i] = mark_verified(@)]
               /\ \E user \in first(ByVerificationToken(token))' :
                     result' = IF user = NoUser
                               THEN res(TRUE, MsgVerified, "User", "", i)
                               ELSE res(TRUE, MsgVerified,
                                        users'[user].username,
                                        users'[user].email, i)
    /\ UNCHANGED <<resetTokens, now, nextUuid, inflight>>

\* UserService.get_user_by_email: a store error is swallowed and gives None
get_user_by_email(email, fault) ==
    IF fault = "query" THEN {NoUser} ELSE first(ByEmail(email))

\* UserService.create_password_reset_token
create_password_reset_token(email, fault) ==
    LET res(ok, msg, tok, id) ==
            Result("create_password_reset_token", fault, "", email, "", tok,
                   ok, msg, id)
    IN
    /\ \E i \in get_user_by_email(email, fault) :
          IF i = NoUser
          THEN /\ result' = res(FALSE, MsgNoAccount, NoToken, NoUser)
               /\ UNCHANGED <<resetTokens, nextUuid>>
          ELSE IF ~users[i].is_verified
          THEN /\ result' = res(FALSE, MsgVerifyFirst, NoToken, i)
               /\ UNCHANGED <<resetTokens, nextUuid>>
          ELSE IF fault = "commit"
          THEN /\ result' = res(FALSE, MsgResetUnavailable, NoToken, i)
               /\ UNCHANGED <<resetTokens, nextUuid>>
          ELSE /\ nextUuid <= MaxUuid
               /\ resetTokens' = resetTokens \cup
                     {PasswordResetToken(i, nextUuid, now + ResetTTL)}
               /\ nextUuid' = nextUuid + 1
               /\ result' = res(TRUE, MsgResetTokenCreated, nextUuid, i)
    /\ UNCHANGED <<users, now, inflight>>

\* UserService.reset_password
reset_password(token, new_password, salt, fault) ==
    LET res(ok, msg, id) ==
            Result("reset_password", fault, "", "", new_password, token, ok,
                   msg, id)
        none == PasswordResetToken(NoUser, NoToken, NoTime)
        rows == IF ResetTokenRows(token) = {} THEN {none}
                ELSE ResetTokenRows(token)
    IN
    /\ \E reset_token \in rows :
          IF fault = "query"
          THEN /\ result' = res(FALSE, MsgResetUnavailable, NoUser)
               /\ UNCHANGED <<users, resetTokens>>
          ELSE IF reset_token = none
          THEN /\ result' = res(FALSE, MsgInvalidResetToken, NoUser)
               /\ UNCHANGED <<users, resetTokens>>
          ELSE IF is_expired(reset_token, now)
          THEN /\ result' = res(FALSE, MsgResetExpired, reset_token.user_id)
               /\ UNCHANGED <<users, resetTokens>>
          ELSE IF reset_token.user_id \notin UserIds
          THEN /\ result' = res(FALSE, MsgUserNotFound, NoUser)
               /\ UNCHANGED <<users, resetTokens>>
          ELSE IF fault = "commit"
          THEN /\ result' = res(FALSE, MsgResetUnavailable,
                                reset_token.user_id)
               /\ UNCHANGED <<users, resetTokens>>
          ELSE /\ users' = [users EXCEPT ![reset_token.user_id].password_hash
                                            = hashpw(new_password, salt)]
               /\ resetTokens' = delete(resetTokens, reset_token)
               /\ result' = res(TRUE, MsgPasswordReset, reset_token.user_id)
    /\ UNCHANGED <<now, nextUuid, inflight>>

\* UserService.create_user_session; the foreign key on user_id makes the
\* commit fail for a user that does not exist
create_user_session(user_id, fault) ==
    LET res(ok, tok) ==
            Result("create_user_session", fault, "", "", "", tok, ok, "",
                   user_id)
    IN
    /\ IF fault # "none" \/ user_id \notin UserIds
       THEN /\ result' = res(FALSE, NoToken)
            /\ UNCHANGED <<userSessions, nextUuid>>
       ELSE /\ nextUuid <= MaxUuid
            /\ userSessions' = userSessions \cup
                  {UserSession(user_id, nextUuid, now + SessionTTL)}
            /\ nextUuid' = nextUuid + 1
            /\ result' = res(TRUE, nextUuid)
    /\ UNCHANGED <<users, resetTokens, now, inflight>>

SessionRows(token) == {r \in userSessions : r.session_token = token}

\* UserService.validate_session_token: the user of the session, or None
validate_session_token(token, fault) ==
    LET res(ok, id) ==
            Result("validate_session_token", fault, "", "", "", token, ok,
                   "", id)
        none == UserSession(NoUser, NoToken, NoTime)
        rows == IF SessionRows(token) = {} THEN {none} ELSE SessionRows(token)
    IN
    /\ \E user_session \in rows :
          IF fault # "none"
          THEN result' = res(FALSE, NoUser)
          ELSE IF \/ user_session = none
                  \/ UserSession_is_expired(user_session, now)
          THEN result' = res(FALSE, NoUser)
          ELSE IF user_session.user_id \notin UserIds
          THEN result' = res(FALSE, NoUser)
          ELSE result' = res(TRUE, user_session.user_id)
    /\ UNCHANGED <<users, resetTokens, now, nextUuid, inflight, userSessions>>

\* UserService.revoke_session
revoke_session(token, fault) ==
    LET res(ok) ==
            Result("revoke_session", fault, "", "", "", token, ok, "", NoUser)
        none == UserSession(NoUser, NoToken, NoTime)
        rows == IF SessionRows(token) = {} THEN {none} ELSE SessionRows(token)
    IN
    /\ \E user_session \in rows :
          IF fault # "none" \/ user_session = none
          THEN /\ result' = res(FALSE)
               /\ UNCHANGED userSessions
          ELSE /\ userSessions' = delete(userSessions, user_session)
               /\ result' = res(TRUE)
    /\ UNCHANGED <<users, resetTokens, now, nextUuid, inflight>>

\* Session.close() at the end of get_db_session: what was not committed is
\* dropped
close ==
    /\ dirty # {}
    /\ dirty' = {}
    /\ result' = Result("close", "none", "", "", "", NoToken, TRUE, "", NoUser)
    /\ UNCHANGED <<users, resetTokens, now, nextUuid, inflight, userSessions>>

\* auth.registration.show_registration_form, the password being valid: a
\* username that validate_username turns down or an email that
\* validate_email turns down is reported and nothing is stored; otherwise
\* create_user, then send_verification_email, which returns email_sent
show_registration_form(username, email, password, salt, fault, email_sent) ==
    IF validate_username(username) # MsgUsernameValid \/ ~validate_email(email)
    THEN /\ result' = Result("show_registration_form", "none", username,
                             email, password, NoToken, FALSE,
                             IF validate_username(username) # MsgUsernameValid
                             THEN validate_username(username)
                             ELSE "Please enter a valid email address",
                             NoUser)
         /\ page' = Page("show_registration_form", FALSE, "error")
         /\ UNCHANGED <<users, resetTokens, now, nextUuid, inflight>>
    ELSE /\ create_user(username, email, password, salt, fault)
         /\ page' = Page("show_registration_form", result'.ok /\ email_sent,
                         notice(result'.ok, email_sent))

\* DatabaseAuthenticator._show_inline_registration, all fields filled in:
\* create_user with the username as typed, then send_verification_email
show_inline_registration(username, email, password, salt, fault, email_sent) ==
    /\ create_user(username, email, password, salt, fault)
    /\ page' = Page("show_inline_registration", result'.ok /\ email_sent,
                    notice(result'.ok, email_sent))

\* DatabaseAuthenticator._show_forgot_password_form:
\* create_password_reset_token, then send_password_reset_email, which
\* returns email_sent
show_forgot_password_form(email, fault, email_sent) ==
    /\ create_password_reset_token(email, fault)
    /\ \E user \in first(ByEmail(email)) :
          page' = IF result'.ok /\ user = NoUser
                  THEN Page("show_forgot_password_form", FALSE, "error")
                  ELSE Page("show_forgot_password_form",
                            result'.ok /\ email_sent,
                            notice(result'.ok, email_sent))

\* an administrator deactivates an account: the is_active flag is flipped
DeactivateUser(i) ==
    /\ i \in UserIds
    /\ users[i].is_active
    /\ users' = [users EXCEPT ![i].is_active = FALSE]
    /\ result' = Result("deactivate", "none", "", "", "", NoToken, TRUE, "", i)
    /\ UNCHANGED <<resetTokens, now, nextUuid, inflight>>

\* config.database.get_db_session up to its yield
get_db_session_enter(SessionLocal) ==
    /\ unit.phase # "body"
    /\ unit' = IF ~SessionLocal
               THEN [unit EXCEPT !.phase = "none", !.closes = 0,
                                 !.outcome = "Exception"]
               ELSE [unit EXCEPT !.phase = "body", !.pending = {},
                                 !.closes = 0, !.outcome = None]
    /\ result' = Result("get_db_session_enter", "none", "", "", "", NoToken,
                        SessionLocal, "", NoUser)
    /\ UNCHANGED <<users, resetTokens, now, nextUuid, inflight>>

\* the body of the block changes a row
body_change(change) ==
    /\ unit.phase = "body"
    /\ unit' = [unit EXCEPT !.pending = @ \cup {change}]
    /\ result' = Result("body_change", "none", change, "", "", NoToken,
                        TRUE, "", NoUser)
    /\ UNCHANGED <<users, resetTokens, now, nextUuid, inflight>>

\* the body of the block calls db.commit() itself
body_commit ==
    /\ unit.phase = "body"
    /\ unit' = [unit EXCEPT !.persisted = commit(@, unit.pending),
                            !.pending = {}]
    /\ result' = Result("body_commit", "none", "", "", "", NoToken, TRUE, "",
                        NoUser)
    /\ UNCHANGED <<users, resetTokens, now, nextUuid, inflight>>

\* config.database.get_db_session after its yield: commit if the body ended
\* normally; rollback and raise again on an Exception, that of the commit
\* included; close in every case, which drops what is not committed
get_db_session(body_end, fault) ==
    LET committed == body_end = None /\ fault = "none"
    IN
    /\ unit.phase = "body"
    /\ unit' = [unit EXCEPT
                   !.phase = "closed",
                   !.persisted = IF committed THEN commit(@, unit.pending)
                                 ELSE @,
                   !.pending = {},
                   !.closes = @ + 1,
                   !.outcome = IF committed THEN None
                               ELSE IF body_end = None THEN "Exception"
                               ELSE body_end]
    /\ result' = Result("get_db_session", fault, body_end, "", "", NoToken,
                        committed, "", NoUser)
    /\ UNCHANGED <<users, resetTokens, now, nextUuid, inflight>>

\* the login form consults config.toml for none but this error
service_unavailable_AnyError(error) == TRUE

\* DatabaseAuthenticator._show_login_form: extra["error"] ==
\* "service_unavailable"
service_unavailable(error) == error = ErrServiceUnavailable

\* app.main for an authenticated user, up to the sidebar
main(state) == reset_user_session(state, state.username)

\* DatabaseAuthenticator.login with the login form submitted, as called by
\* app.handle_authentication: authenticate_with_database, on
\* service_unavailable authenticate_with_config; a success is stored in the
\* session state and the script runs again, which renders the main app
login(username, password, fault, config) ==
    /\ session_state.authentication_status # "True"
    /\ authenticate_with_database(username, password, fault)
    /\ LET fits == IF ~result'.ok /\ service_unavailable(result'.msg)
                   THEN authenticate_with_config(username, password, config)
                   ELSE {}
           names == IF result'.ok
                    THEN {users'[result'.user].username}
                    ELSE {user_data.name : user_data \in fits}
       IN IF names # {}
          THEN /\ \E name \in names :
                     session_state' =
                        main([session_state EXCEPT
                                 !.authentication_status = "True",
                                 !.name = name, !.username = username])
               /\ page' = Page("main", FALSE, "success")
          ELSE /\ session_state' =
                     [session_state EXCEPT !.authentication_status = "False",
                                           !.name = None,
                                           !.username = username]
               /\ page' = Page("login", FALSE, "error")

\* a script run of app.main without a login: the form is shown and
\* handle_authentication stores what login returns, None
show_login_welcome ==
    /\ session_state.authentication_status # "True"
    /\ session_state' = [session_state EXCEPT !.authentication_status = None,
                                              !.name = None,
                                              !.username = None]
    /\ page' = Page("login", FALSE, "")
    /\ result' = Result("show_login_welcome", "none", "", "", "", NoToken,
                        FALSE, "", NoUser)
    /\ UNCHANGED <<users, resetTokens, now, nextUuid, inflight>>

\* a script run of app.main with a file in the uploader
file_uploader(uploaded_file, loaded) ==
    /\ session_state.authentication_status = "True"
    /\ session_state' =
          handle_file_upload(main(session_state), uploaded_file, loaded)
    /\ page' = Page("main", FALSE, IF session_state'.df = session_state.df
                                   THEN "" ELSE "success")
    /\ result' = Result("handle_file_upload", "none", uploaded_file, "", "",
                        NoToken, loaded, "", NoUser)
    /\ UNCHANGED <<users, resetTokens, now, nextUuid, inflight>>

\* a script run of app.main with "Run Analysis" pressed:
\* app.handle_ai_analysis; answered tells whether the agent answers
handle_ai_analysis(answered) ==
    /\ session_state.authentication_status = "True"
    /\ session_state.df # NoDf
    /\ Len(session_state.analysis_count) < MaxAnalyses
    /\ LET state == main(session_state)
       IN session_state' =
             IF answered
             THEN [state EXCEPT
                     !.chat_history =
                         @ \o <<[role |-> "User", by |-> who(state)],
                                [role |-> "Assistant", by |-> who(state)]>>,
                     !.analysis_count = Append(@, who(state))]
             ELSE state
    /\ page' = Page("main", FALSE, IF answered THEN "success" ELSE "error")
    /\ result' = Result("handle_ai_analysis", "none", "", "", "", NoToken,
                        answered, "", NoUser)
    /\ UNCHANGED <<users, resetTokens, now, nextUuid, inflight>>

\* app.display_analysis_history with "Clear History" pressed
display_analysis_history ==
    /\ session_state.authentication_status = "True"
    /\ session_state.chat_history # <<>>
    /\ session_state' = main([main(session_state) EXCEPT !.chat_history = <<>>])
    /\ page' = Page("main", FALSE, "")
    /\ result' = Result("display_analysis_history", "none", "", "", "",
                        NoToken, TRUE, "", NoUser)
    /\ UNCHANGED <<users, resetTokens, now, nextUuid, inflight>>

\* DatabaseAuthenticator.logout with the button pressed: four keys are
\* deleted, the script runs again and initialize_session_state restores
\* their defaults
logout ==
    /\ session_state.authentication_status = "True"
    /\ session_state' =
          initialize_session_state(
             main(session_state),
             {"authentication_status", "name", "username", "current_user"})
    /\ page' = Page("login", FALSE, "success")
    /\ result' = Result("logout", "none", "", "", "", NoToken, TRUE, "",
                        NoUser)
    /\ UNCHANGED <<users, resetTokens, now, nextUuid, inflight>>

\* fix_admins.fix_admin_user
fix_admin_user(salt, fault) ==
    LET res(ok, id) ==
            Result("fix_admin_user", fault, "", "", "", NoToken, ok, "", id)
        password_hash == hashpw("admin123", salt)
    IN
    /\ \E i \in first(ByUsername("admin")) :
          IF fault # "none"
          THEN /\ result' = res(FALSE, NoUser)
               /\ UNCHANGED users
          ELSE IF i = NoUser
          THEN LET admin_user ==
                       [User("admin", "admin@example.com", password_hash)
                          EXCEPT !.is_verified = TRUE, !.is_active = TRUE,
                                 !.created_at = now]
               IN IF UniqueViolation(admin_user)
                  THEN /\ result' = res(FALSE, NoUser)
                       /\ UNCHANGED users
                  ELSE /\ users' = Append(users, admin_user)
                       /\ result' = res(TRUE, Len(users) + 1)
          ELSE /\ users' = [users EXCEPT ![i] =
                         [@ EXCEPT !.password_hash = password_hash,
                                   !.is_verified = TRUE, !.is_active = TRUE,
                                   !.verification_token = NoToken,
                                   !.verification_expires = NoTime]]
               /\ result' = res(TRUE, i)
    /\ UNCHANGED <<resetTokens, now, nextUuid, inflight>>

\* fix_admins.fix_richard_user
fix_richard_user(fault) ==
    LET res(ok, id) ==
            Result("fix_richard_user", fault, "", "", "", NoToken, ok, "", id)
    IN
    /\ \E i \in first(ByUsername("richard")) :
          IF fault # "none" \/ i = NoUser
          THEN /\ result' = res(FALSE, NoUser)
               /\ UNCHANGED users
          ELSE /\ users' = [users EXCEPT ![i] =
                         [@ EXCEPT !.is_verified = TRUE, !.is_active = TRUE,
                                   !.verification_token = NoToken,
                                   !.verification_expires = NoTime]]
               /\ result' = res(TRUE, i)
    /\ UNCHANGED <<resetTokens, now, nextUuid, inflight>>

\* ------------------------------------------------------------------------
\* The whole system, and the parts of it the properties are checked on
\* ------------------------------------------------------------------------
Identifiers == Usernames \cup Emails

Registration(N, P, S) ==
    \E n \in N, e \in Emails, p \in P, s \in S, f \in Faults :
       create_user(n, e, p, s, f) /\ UNCHANGED <<page, userSessions, session_state, unit>> /\ dirty' = {}

\* registrations that run side by side, one per database session
RegistrationCheck ==
    \E s \in Sessions, n \in Usernames, e \in Emails, f \in {"none", "query"} :
       create_user_check(s, n, e, f) /\ UNCHANGED <<page, userSessions, session_state, unit>> /\ dirty' = {}

RegistrationCommit ==
    \E s \in Sessions, f \in {"none", "commit"} :
       create_user_commit(s, "admin123", 1, f) /\ UNCHANGED <<page, userSessions, session_state, unit>> /\ dirty' = {}

Verification ==
    \E t \in Tokens, f \in Faults : verify_email(t, f) /\ UNCHANGED <<page, userSessions, session_state, unit>> /\ dirty' = {}

VerificationPage ==
    \E t \in Tokens, f \in Faults :
       verify_email_token(t, f) /\ UNCHANGED <<page, userSessions, session_state, unit>> /\ dirty' = {}

LoginService ==
    \E x \in Identifiers, p \in Passwords, f \in Faults :
       authenticate_user(x, p, f) /\ UNCHANGED <<page, userSessions, session_state, unit>>

LoginForm ==
    \E x \in Identifiers, p \in Passwords, f \in Faults :
       authenticate_with_database(x, p, f) /\ UNCHANGED <<page, userSessions, session_state, unit>> /\ dirty' = {}

RequestReset ==
    \E e \in Emails, f \in Faults :
       create_password_reset_token(e, f) /\ UNCHANGED <<page, userSessions, session_state, unit>> /\ dirty' = {}

ResetPassword(P, S) ==
    \E t \in Tokens, p \in P, s \in S, f \in Faults :
       reset_password(t, p, s, f) /\ UNCHANGED <<page, userSessions, session_state, unit>> /\ dirty' = {}

Deactivation == \E i \in UserIds : DeactivateUser(i) /\ UNCHANGED <<page, userSessions, session_state, unit>> /\ dirty' = {}

FixAdmin(S) ==
    \E s \in S, f \in Faults : fix_admin_user(s, f) /\ UNCHANGED <<page, userSessions, session_state, unit>> /\ dirty' = {}

FixRichard == \E f \in Faults : fix_richard_user(f) /\ UNCHANGED <<page, userSessions, session_state, unit>> /\ dirty' = {}

Clock(D) == \E d \in D : Tick(d) /\ UNCHANGED <<page, userSessions, session_state, unit>> /\ dirty' = {}

\* the session operations of UserService
SessionCreate ==
    \E i \in 1..(Len(users) + 1), f \in Faults :
       create_user_session(i, f) /\ UNCHANGED <<page, session_state, unit>> /\ dirty' = {}

SessionValidate ==
    \E t \in Tokens, f \in Faults :
       validate_session_token(t, f) /\ UNCHANGED <<page, session_state, unit>> /\ dirty' = {}

SessionRevoke ==
    \E t \in Tokens, f \in Faults : revoke_session(t, f) /\ UNCHANGED <<page, session_state, unit>> /\ dirty' = {}

SessionClose == close /\ UNCHANGED <<page, session_state, unit>>

\* the pages whose operation is followed by an email
RegistrationPage(N) ==
    \E n \in N, e \in Emails, f \in Faults, sent \in BOOLEAN :
       show_registration_form(n, e, "admin123", 1, f, sent) /\ UNCHANGED <<userSessions, session_state, unit>> /\ dirty' = {}

InlineRegistrationPage(N) ==
    \E n \in N, e \in Emails, f \in Faults, sent \in BOOLEAN :
       show_inline_registration(n, e, "admin123", 1, f, sent) /\ UNCHANGED <<userSessions, session_state, unit>> /\ dirty' = {}

\* the units of work of get_db_session
UnitEnter ==
    \E SessionLocal \in BOOLEAN :
       get_db_session_enter(SessionLocal)
          /\ UNCHANGED <<page, userSessions, session_state>> /\ dirty' = {}

UnitChange ==
    \E change \in BodyChanges :
       body_change(change)
          /\ UNCHANGED <<page, userSessions, session_state>> /\ dirty' = {}

UnitCommit ==
    body_commit /\ UNCHANGED <<page, userSessions, session_state>> /\ dirty' = {}

UnitExit ==
    \E body_end \in BodyEnds, fault \in {"none", "commit"} :
       get_db_session(body_end, IF body_end = None THEN fault ELSE "none")
          /\ UNCHANGED <<page, userSessions, session_state>> /\ dirty' = {}

\* the script runs of the main app
LoginPage ==
    \E x \in Identifiers, p \in Passwords, f \in Faults, c \in Configs :
       login(x, p, f, c) /\ UNCHANGED <<userSessions, unit>> /\ dirty' = {}

LoginWelcome == show_login_welcome /\ UNCHANGED <<userSessions, unit>> /\ dirty' = {}

Upload ==
    \E file \in Files, loaded \in BOOLEAN :
       file_uploader(file, loaded) /\ UNCHANGED <<userSessions, unit>> /\ dirty' = {}

Analysis ==
    \E answered \in BOOLEAN :
       handle_ai_analysis(answered) /\ UNCHANGED <<userSessions, unit>> /\ dirty' = {}

ClearHistory == display_analysis_history /\ UNCHANGED <<userSessions, unit>> /\ dirty' = {}

Logout == logout /\ UNCHANGED <<userSessions, unit>> /\ dirty' = {}

ForgotPasswordPage ==
    \E e \in Emails, f \in Faults, sent \in BOOLEAN :
       show_forgot_password_form(e, f, sent) /\ UNCHANGED <<userSessions, session_state, unit>> /\ dirty' = {}

Next ==
    \/ Clock(TickSteps)
    \/ Registration(Usernames, Passwords, Salts)
    \/ RegistrationCheck
    \/ RegistrationCommit
    \/ Verification
    \/ VerificationPage
    \/ LoginService
    \/ LoginForm
    \/ RequestReset
    \/ ResetPassword(Passwords, Salts)
    \/ Deactivation
    \/ FixAdmin(Salts)
    \/ FixRichard
    \/ RegistrationPage(Usernames)
    \/ ForgotPasswordPage
    \/ SessionCreate
    \/ SessionValidate
    \/ SessionRevoke
    \/ SessionClose
    \/ InlineRegistrationPage(TypedUsernames)
    \/ LoginPage
    \/ LoginWelcome
    \/ Upload
    \/ Analysis
    \/ ClearHistory
    \/ Logout
    \/ UnitEnter
    \/ UnitChange
    \/ UnitCommit
    \/ UnitExit

Spec == Init /\ [][Next]_vars

\* registration, verification, deactivation and the two login entry points;
\* the clock stands still and every hash uses the same salt
NextAuth ==
    \/ Registration(Usernames, Passwords, {1})
    \/ Verification
    \/ LoginService
    \/ LoginForm
    \/ Deactivation
    \/ FixAdmin({1})
    \/ FixRichard

SpecAuth == Init /\ [][NextAuth]_vars

\* registration and email verification over time, with one password
NextVerify ==
    \/ Clock(TickSteps)
    \/ Registration(Usernames, {"admin123"}, {1})
    \/ Verification
    \/ FixAdmin({1})
    \/ FixRichard

SpecVerify == Init /\ [][NextVerify]_vars

\* the password reset workflow, hour by hour
NextReset ==
    \/ Clock({1})
    \/ Registration({"richard"}, {"admin123"}, {1})
    \/ Verification
    \/ RequestReset
    \/ ResetPassword({"richard09"}, {1})
    \/ FixAdmin({1})
    \/ FixRichard

SpecReset == Init /\ [][NextReset]_vars

\* registration and the email verification page over time
NextVerifyPage ==
    \/ Clock(TickSteps)
    \/ Registration(Usernames, {"admin123"}, {1})
    \/ VerificationPage

SpecVerifyPage == Init /\ [][NextVerifyPage]_vars

\* logins over time, hour by hour
NextLogin ==
    \/ Clock({1})
    \/ Registration({"richard"}, {"admin123"}, {1})
    \/ Verification
    \/ LoginService
    \/ LoginForm

SpecLogin == Init /\ [][NextLogin]_vars

\* the registration and the forgot-password page, with email verification
NextPages ==
    \/ RegistrationPage(Usernames)
    \/ Verification
    \/ ForgotPasswordPage

SpecPages == Init /\ [][NextPages]_vars

\* user sessions over time, hour by hour and month by month; the users
\* come from the maintenance script
NextSessions ==
    \/ Clock({1, SessionTTL})
    \/ FixAdmin({1})
    \/ SessionCreate
    \/ SessionValidate
    \/ SessionRevoke

SpecSessions == Init /\ [][NextSessions]_vars

\* every operation of UserService, with one user; the clock stands still
NextService ==
    \/ Registration({"richard"}, {"admin123"}, {1})
    \/ Verification
    \/ LoginService
    \/ RequestReset
    \/ ResetPassword({"richard09"}, {1})
    \/ SessionCreate
    \/ SessionValidate
    \/ SessionRevoke
    \/ SessionClose

SpecService == Init /\ [][NextService]_vars

\* the two registration forms, with whatever a visitor types, and email
\* verification
NextRegistration ==
    \/ RegistrationPage(TypedUsernames)
    \/ InlineRegistrationPage(TypedUsernames)
    \/ Verification

SpecRegistration == Init /\ [][NextRegistration]_vars

\* the login form of the main app over a store in which one user
\* registers, verifies and is deactivated
NextLoginForm ==
    \/ Registration({"richard"}, {"richard09"}, {1})
    \/ Verification
    \/ Deactivation
    \/ LoginPage
    \/ Logout

SpecLoginForm == Init /\ [][NextLoginForm]_vars

\* one browser session of the main app; one user comes from the
\* maintenance script, another from config.toml
NextApp ==
    \/ FixAdmin({1})
    \/ LoginPage
    \/ LoginWelcome
    \/ Upload
    \/ Analysis
    \/ ClearHistory
    \/ Logout

SpecApp == Init /\ [][NextApp]_vars

\* units of work, one after the other
NextUnit ==
    \/ UnitEnter
    \/ UnitChange
    \/ UnitCommit
    \/ UnitExit

SpecUnit == Init /\ [][NextUnit]_vars

\* registrations in concurrent database sessions, and email verification
NextConcurrent ==
    \/ RegistrationCheck
    \/ RegistrationCommit
    \/ Verification

SpecConcurrent == Init /\ [][NextConcurrent]_vars

\* a password reset followed by logins; the clock stands still
NextResetLogin ==
    \/ Registration({"richard"}, {"admin123"}, {1})
    \/ Verification
    \/ RequestReset
    \/ ResetPassword(Passwords, {1})
    \/ LoginService
    \/ LoginForm
    \/ Deactivation
    \/ FixRichard

SpecResetLogin == Init /\ [][NextResetLogin]_vars

\* ------------------------------------------------------------------------
\* Properties
\* ------------------------------------------------------------------------
AuthOps == {"authenticate_user", "authenticate_with_database"}

\* the error kind a login result stands for
AuthOutcome ==
    IF result.ok THEN "Success"
    ELSE IF result.msg = MsgInvalidCredentials THEN "InvalidCredentials"
    ELSE IF result.op = "authenticate_with_database" /\ result.msg = ErrNone
         THEN "InvalidCredentials"
    ELSE IF result.msg = ErrEmailNotVerified THEN "EmailNotVerified"
    ELSE IF result.msg = ErrAccountDeactivated THEN "AccountDeactivated"
    ELSE "StoreUnavailable"

\* the user the last login looked up, and whether the password given fits
Found == result.op \in AuthOps /\ result.user # NoUser

PasswordWrong == ~checkpw(result.pw, users[result.user].password_hash)

\* C1: whatever the password, no login entry point reports success for a
\* user whose is_verified flag is false.
C1_UnverifiedNeverAuthenticated ==
    (result.op \in AuthOps /\ result.ok) => users[result.user].is_verified

\* C4: the checks run in the order lookup, is_active, password, is_verified:
\* a deactivated user is told AccountDeactivated even with a wrong password
\* or an unverified email, and an active unverified user with a wrong
\* password is told InvalidCredentials.
C4_AuthenticationOrder ==
    (Found /\ result.fault = "none") =>
        /\ ~users[result.user].is_active
              => AuthOutcome = "AccountDeactivated"
        /\ (users[result.user].is_active /\ ~users[result.user].is_verified
               /\ PasswordWrong)
              => AuthOutcome = "InvalidCredentials"

\* C5: a deactivated, verified user with the right password is told
\* AccountDeactivated, and no login entry point reports success for a user
\* whose is_active flag is false.
C5_DeactivatedNeverAuthenticated ==
    /\ (result.op \in AuthOps /\ result.ok) => users[result.user].is_active
    /\ (Found /\ result.fault = "none" /\ ~users[result.user].is_active
           /\ users[result.user].is_verified /\ ~PasswordWrong)
          => AuthOutcome = "AccountDeactivated"

\* no two rows of table users share a username or an email
UniqueUsers ==
    \A i, j \in UserIds :
       i # j => /\ users[i].username # users[j].username
                /\ users[i].email # users[j].email

\* a create_user call the store answers, for a username or an email that a
\* stored user holds
C2_DuplicateRejected ==
    (result'.op = "create_user" /\ result'.fault = "none") =>
        LET nameTaken == \E i \in UserIds :
                            users[i].username = result'.ident
            emailTaken == \E i \in UserIds : users[i].email = result'.email
        IN /\ nameTaken =>
                 /\ result'.msg = MsgUsernameExists
                 /\ ~result'.ok
                 /\ users' = users
           /\ (~nameTaken /\ emailTaken) =>
                 /\ result'.msg = MsgEmailRegistered
                 /\ ~result'.ok
                 /\ users' = users

\* two create_user calls one after the other, the first of which stored its
\* user; sameNameFirst says that a taken username is reported before a taken
\* email
C2_TwoCalls(sameNameFirst) ==
    (/\ result.op = "create_user" /\ result.ok
     /\ result'.op = "create_user" /\ result'.fault = "none") =>
        LET nameTaken == \E i \in UserIds :
                            users[i].username = result'.ident
        IN /\ result.ident = result'.ident =>
                 result'.msg = MsgUsernameExists /\ users' = users
           /\ (result.ident # result'.ident /\ result.email = result'.email)
                 => /\ users' = users
                    /\ result'.msg = IF sameNameFirst /\ nameTaken
                                     THEN MsgUsernameExists
                                     ELSE MsgEmailRegistered

\* C2 as stated: after a create_user call that stored its user, a call with
\* the same username fails with "Username already exists" and adds no user,
\* a call with the same email and another username fails with "Email
\* already registered", and no store holds two users with one username or
\* one email.
C2_AsStated == []UniqueUsers /\ [][C2_TwoCalls(FALSE)]_vars

\* C2 as amended: as stated, except that the call with the same email and
\* another username fails with "Username already exists" when that username
\* is taken too, the username being looked up first.
C2_Uniqueness ==
    /\ []UniqueUsers
    /\ [][C2_DuplicateRejected]_vars
    /\ [][C2_TwoCalls(TRUE)]_vars

\* a second registration of a stored username, with an email nobody holds,
\* was turned down
C2_Witness ==
    /\ result.op = "create_user"
    /\ result.msg = MsgUsernameExists
    /\ \E i \in UserIds : users[i].username = result.ident
    /\ \A i \in UserIds : users[i].email # result.email

\* the reset tokens resetPassword would accept now
Acceptable == {r \in resetTokens : now <= r.expires_at}

\* C3: of the reset tokens issued to one user at most one is accepted, the
\* one issued last: an earlier one is gone from the store once the next is
\* issued, and a reset never succeeds with a token older than a stored one.
C3_OnlyLatestResetTokenAccepted ==
    /\ \A r1, r2 \in Acceptable : r1.user_id = r2.user_id => r1 = r2
    /\ (result.op = "reset_password" /\ result.ok) =>
          \A r \in resetTokens :
             r.user_id = result.user => r.token < result.token

\* a verify_email call, for a token an unverified user holds unexpired, and
\* for the token the call before verified
C6_Step ==
    result'.op = "verify_email" =>
        /\ \A i \in UserIds :
              (/\ users[i].verification_token = result'.token
               /\ ~users[i].is_verified
               /\ now <= users[i].verification_expires
               /\ result'.fault = "none")
              => /\ result'.ok
                 /\ result'.user = i
                 /\ users'[i].is_verified
                 /\ users'[i].verification_token = NoToken
                 /\ users'[i].verification_expires = NoTime
        /\ (/\ result.op = "verify_email" /\ result.ok
            /\ result.token = result'.token)
              => /\ ~result'.ok
                 /\ result'.fault = "none"
                       => result'.msg = MsgInvalidVerificationToken
                 /\ users' = users
                 /\ resetTokens' = resetTokens

\* C6: verify_email with a valid, unexpired token succeeds, sets is_verified
\* and clears verification_token and verification_expires; called again
\* with the same token it returns "Invalid verification token" and changes
\* nothing.
C6_VerifyTwice == [][C6_Step]_vars

\* a token that was issued and verified its user is presented again
C6_Witness ==
    /\ result.op = "verify_email"
    /\ result.msg = MsgInvalidVerificationToken
    /\ result.token < nextUuid
    /\ \A i \in UserIds : users[i].verification_token # result.token
    /\ \E i \in UserIds : users[i].is_verified /\ users[i].last_login = NoTime

\* a verify_email call for the token of an unverified user, and the expiry a
\* registration sets
C7_Step ==
    /\ result'.op = "verify_email" =>
          /\ \A i \in UserIds :
                (/\ users[i].verification_token = result'.token
                 /\ ~users[i].is_verified
                 /\ result'.fault = "none")
                => /\ result'.msg = MsgVerificationExpired
                         <=> now > users[i].verification_expires
                   /\ now <= users[i].verification_expires => result'.ok
          /\ ~result'.ok => users' = users
    /\ (result'.op = "create_user" /\ result'.ok) =>
          users'[result'.user].verification_expires = now + 24

\* C7: a token of an unverified user is rejected as expired exactly when the
\* time is strictly after verification_expires, which is the issue time
\* plus 24 hours, and accepted up to and including that instant; a rejected
\* call leaves the users unchanged.
C7_VerificationExpiry == [][C7_Step]_vars

\* a token rejected in the first hour after its expiry
C7_Witness ==
    /\ result.op = "verify_email"
    /\ result.msg = MsgVerificationExpired
    /\ result.user # NoUser
    /\ users[result.user].verification_token = result.token
    /\ ~users[result.user].is_verified
    /\ now = users[result.user].verification_expires + 1

\* a reset_password call, for a token that is stored and for one that is not
C8_Step ==
    /\ (result'.op = "reset_password" /\ result'.ok) =>
          \A r \in resetTokens' : r.token # result'.token
    /\ (/\ result'.op = "reset_password"
        /\ \A r \in resetTokens : r.token # result'.token)
          => /\ ~result'.ok
             /\ result'.fault = "none" => result'.msg = MsgInvalidResetToken
             /\ users' = users
    /\ (/\ result.op = "reset_password" /\ result.ok
        /\ result'.op = "reset_password" /\ result'.token = result.token)
          => /\ ~result'.ok
             /\ result'.fault = "none" => result'.msg = MsgInvalidResetToken
             /\ users' = users
    /\ \A t \in 1..(nextUuid - 1) :
          (\A r \in resetTokens : r.token # t)
             => \A r \in resetTokens' : r.token # t

\* C8: a reset token is single-use: a successful reset_password deletes it,
\* a deleted token never returns to the store, and every later
\* reset_password with it returns "Invalid reset token" and changes no
\* password_hash.
C8_ResetTokenSingleUse == [][C8_Step]_vars

\* the only token issued was a reset token, it has reset the password of
\* the only user, and it is presented again
C8_Witness ==
    /\ result.op = "reset_password"
    /\ result.msg = MsgInvalidResetToken
    /\ result.token = 1
    /\ nextUuid = 2
    /\ resetTokens = {}
    /\ Len(users) = 1
    /\ users[1].verification_token = NoToken
    /\ users[1].password_hash.digest = "richard09"

\* a reset_password call, and the expiry a reset request sets
C9_Step ==
    /\ result'.op = "reset_password" =>
          /\ (/\ result'.fault = "none"
              /\ \A r \in resetTokens : r.token # result'.token)
                => result'.msg = MsgInvalidResetToken
          /\ \A r \in resetTokens :
                (r.token = result'.token /\ result'.fault = "none")
                => /\ result'.msg = MsgResetExpired <=> now > r.expires_at
                   /\ now <= r.expires_at => result'.ok
          /\ result'.msg \in {MsgInvalidResetToken, MsgResetExpired}
                => /\ ~result'.ok
                   /\ users' = users
                   /\ resetTokens' = resetTokens
    /\ (result'.op = "create_password_reset_token" /\ result'.ok) =>
          \A r \in resetTokens' \ resetTokens : r.expires_at = now + 1

\* C9: reset_password returns "Invalid reset token" when no stored token
\* equals the one given and "Reset token has expired" when the stored
\* token's expires_at, the issue time plus one hour, is strictly before the
\* time; in both cases no password_hash and no stored reset token changes.
C9_ResetRejections == [][C9_Step]_vars

\* a stored token rejected in the first hour after its expiry
C9_Witness ==
    /\ result.op = "reset_password"
    /\ result.msg = MsgResetExpired
    /\ \E r \in resetTokens :
          r.token = result.token /\ now = r.expires_at + 1

\* the answer of create_password_reset_token when the store raises nothing:
\* verifiedOnly says that an unverified user is turned away
C10_Answer(verifiedOnly) ==
    (result.op = "create_password_reset_token" /\ result.fault = "none") =>
        IF \A i \in UserIds : users[i].email # result.email
        THEN ~result.ok /\ result.msg = MsgNoAccount
        ELSE IF verifiedOnly /\ \E i \in UserIds :
                   users[i].email = result.email /\ ~users[i].is_verified
        THEN /\ ~result.ok
             /\ result.msg = MsgVerifyFirst
             /\ result.token = NoToken
        ELSE /\ result.ok
             /\ \E r \in resetTokens :
                   /\ r.token = result.token
                   /\ r.expires_at = now + 1
                   /\ r.user_id = result.user
                   /\ users[r.user_id].email = result.email

\* C10 as stated: create_password_reset_token fails with "No account found
\* with this email" when no user has the email, and for every user with it,
\* verified or not, it succeeds, stores a reset token that expires one hour
\* after issue and returns that token.
C10_AsStated == C10_Answer(FALSE)

\* C10 as amended: as stated for a verified user; for an unverified user
\* the call fails with "Please verify your email first"; a call that fails
\* stores no token.
C10_RequestReset ==
    /\ []C10_Answer(TRUE)
    /\ [][(result'.op = "create_password_reset_token" /\ ~result'.ok)
             => resetTokens' = resetTokens]_vars

\* an unverified user asked for a reset token and was turned away
C10_Witness ==
    /\ result.op = "create_password_reset_token"
    /\ result.msg = MsgVerifyFirst
    /\ result.user # NoUser
    /\ ~users[result.user].is_verified
    /\ resetTokens = {}

\* a login directly after the registration, and directly after the
\* verification, of the user it looks up, with that user's password
C11_Step ==
    (/\ result'.op \in AuthOps
     /\ result'.fault = "none"
     /\ result.ok
     /\ result.user # NoUser
     /\ result'.user = result.user
     /\ checkpw(result'.pw, users[result.user].password_hash)) =>
        /\ result.op = "create_user" => AuthOutcome' = "EmailNotVerified"
        /\ (result.op = "verify_email" /\ users[result.user].is_active)
              => AuthOutcome' = "Success"

\* C11: a login with the right password directly after create_user stored
\* the user fails with EmailNotVerified, and directly after verify_email
\* verified the user it succeeds and returns that user.
C11_RegisterVerifyLogin == [][C11_Step]_vars

\* a successful reset_password, and a login of a verified, active user
C12_Step ==
    /\ (result'.op = "reset_password" /\ result'.ok) =>
          users'[result'.user].password_hash.digest = result'.pw
    /\ (/\ result'.op \in AuthOps
        /\ result'.fault = "none"
        /\ result'.user # NoUser
        /\ users[result'.user].is_verified
        /\ users[result'.user].is_active) =>
          /\ AuthOutcome' =
                IF result'.pw = users[result'.user].password_hash.digest
                THEN "Success" ELSE "InvalidCredentials"
          /\ (/\ result.op = "reset_password" /\ result.ok
              /\ result.user = result'.user) =>
                AuthOutcome' = IF result'.pw = result.pw
                               THEN "Success" ELSE "InvalidCredentials"

\* C12: after reset_password stored the hash of a new password q for a
\* verified, active user, a login with any other password, the old one
\* included, fails with InvalidCredentials and a login with q succeeds.
C12_ResetThenLogin == [][C12_Step]_vars

\* the user registered with "admin123", the password was reset to
\* "richard09", and a login with "admin123" was turned down
C12_Witness ==
    /\ result.op \in AuthOps
    /\ AuthOutcome = "InvalidCredentials"
    /\ result.pw = "admin123"
    /\ result.user # NoUser
    /\ users[result.user].password_hash.digest = "richard09"
    /\ users[result.user].is_verified
    /\ users[result.user].is_active
    /\ resetTokens = {}
    /\ nextUuid > 2

\* a verified user holds no verification token, and an unverified user, who
\* was issued one when create_user stored the row, holds one
C13_TokenState ==
    \A i \in UserIds :
       users[i].verification_token = NoToken <=> users[i].is_verified

\* a token on a row stays there until the row is verified
C13_TokenKept ==
    \A i \in UserIds :
       users[i].verification_token # NoToken =>
          \/ users'[i].verification_token = users[i].verification_token
          \/ users'[i].is_verified

\* C13: in every state a user's verification_token is null exactly when the
\* user is verified or was never issued a token: no verified user holds a
\* token, and an unverified user keeps the token it was issued until it is
\* verified.
C13_TokenNullIffVerified == []C13_TokenState /\ [][C13_TokenKept]_vars

\* one user has just been verified by its token and holds none any more,
\* another is unverified and holds its token
C13_Witness ==
    /\ result.op = "verify_email"
    /\ result.ok
    /\ users[result.user].verification_token = NoToken
    /\ \E j \in UserIds :
          ~users[j].is_verified /\ users[j].verification_token # NoToken

\* the return of a create_user call that passed its existence checks in
\* session s, when the store raises nothing but the unique indexes
C14_Step ==
    \A s \in Sessions :
       (inflight[s] # Idle /\ inflight'[s] = Idle /\ result'.fault = "none") =>
          LET nameTaken == \E i \in UserIds :
                              users[i].username = inflight[s].username
              emailTaken == \E i \in UserIds :
                               users[i].email = inflight[s].email
          IN /\ nameTaken =>
                   /\ ~result'.ok
                   /\ result'.msg = MsgUsernameExists
                   /\ users' = users
             /\ (~nameTaken /\ emailTaken) =>
                   /\ ~result'.ok
                   /\ result'.msg = MsgEmailRegistered
                   /\ users' = users
             /\ (~nameTaken /\ ~emailTaken) =>
                   /\ result'.ok
                   /\ Len(users') = Len(users) + 1

\* C14: however two create_user calls with one username interleave, the
\* store ends with one user of that username, one call reports success and
\* the other returns "Username already exists" ("Email already registered"
\* for a shared email), not an error that names neither.
C14_ConcurrentRegistration == []UniqueUsers /\ [][C14_Step]_vars

\* the return of a create_user call
C15_Step ==
    result'.op = "create_user" =>
        IF result'.ok
        THEN /\ Len(users') = Len(users) + 1
             /\ \A i \in UserIds : users'[i] = users[i]
             /\ users'[Len(users')].username = result'.ident
             /\ users'[Len(users')].email = result'.email
             /\ users'[Len(users')].verification_token # NoToken
             /\ users'[Len(users')].verification_expires = now + 24
        ELSE /\ users' = users
             /\ resetTokens' = resetTokens

\* a row that waits for its verification has its token and its expiry
C15_RowsComplete ==
    \A i \in UserIds :
       ~users[i].is_verified =>
          /\ users[i].verification_token # NoToken
          /\ users[i].verification_expires # NoTime

\* C15: a create_user call that returns a failure, be it a duplicate, a
\* violated unique index or a store error before or during the commit,
\* leaves the users and their tokens as they were, and a call that succeeds
\* stores the row together with its verification token and expiry.
C15_CreateUserAtomic == []C15_RowsComplete /\ [][C15_Step]_vars

\* the second of two concurrent registrations of one username has failed at
\* its commit and the store holds the one user of the first
C15_Witness ==
    /\ result.op = "create_user"
    /\ result.msg = MsgIntegrity
    /\ Len(users) = 1
    /\ users[1].username = result.ident
    /\ \A s \in Sessions : inflight[s] = Idle

\* what a login hands back to its caller: success, the message or error
\* code, and the user, which is None when the user is absent or the
\* password wrong
Returned ==
    [ok |-> result.ok, msg |-> result.msg,
     user |-> IF \/ result.ok
                 \/ result.msg \in {ErrEmailNotVerified, ErrAccountDeactivated}
              THEN result.user ELSE NoUser]

\* C16: a login with an identifier no user has and a login of an existing,
\* active user with a wrong password hand back the same value, the
\* InvalidCredentials failure of that entry point without a user, so the
\* answer does not tell whether the identifier exists.
C16_NoUserEnumeration ==
    (/\ result.op \in AuthOps
     /\ result.fault = "none"
     /\ \/ result.user = NoUser
        \/ /\ users[result.user].is_active
           /\ result.pw # users[result.user].password_hash.digest) =>
        /\ AuthOutcome = "InvalidCredentials"
        /\ Returned = [ok |-> FALSE,
                       msg |-> IF result.op = "authenticate_user"
                               THEN MsgInvalidCredentials ELSE ErrNone,
                       user |-> NoUser]

\* a verified, active user gave a wrong password
C16_Witness ==
    /\ result.op \in AuthOps
    /\ result.fault = "none"
    /\ result.user # NoUser
    /\ users[result.user].is_active
    /\ users[result.user].is_verified
    /\ result.pw # users[result.user].password_hash.digest
    /\ ~result.ok

\* is_verified, once true, stays true
C17_VerifiedStays ==
    \A i \in UserIds : users[i].is_verified => users'[i].is_verified

\* verify_email with the token that has just verified its user: answer is
\* the message the call returns when the store raises nothing
C17_Again(answer) ==
    (/\ result.op = "verify_email" /\ result.ok
     /\ users[result.user].is_verified
     /\ result'.op = "verify_email"
     /\ result'.token = result.token
     /\ result'.fault = "none") =>
        ~result'.ok /\ result'.msg = answer

C18_VerifiedUserWelcomed ==
    (result.op = "verify_email_token" /\ result.ok) =>
        /\ result.ident = users[result.user].username
        /\ result.email = users[result.user].email

\* C19: a login that succeeds stores the time of that login in the user's
\* last_login, so that after two logins the later time is stored.
C19_LastLoginIsNow ==
    (result.op \in AuthOps /\ result.ok) =>
        users[result.user].last_login = now

\* a page whose operation succeeded and whose email the dispatcher did not
\* take
C20_Step ==
    /\ (/\ page'.name = "show_registration_form"
        /\ result'.op = "create_user"
        /\ result'.ok
        /\ ~page'.email_sent) =>
          /\ result'.user \in 1..Len(users')
          /\ users'[result'.user].username = result'.ident
          /\ ~users'[result'.user].is_verified
          /\ users'[result'.user].verification_token # NoToken
          /\ page'.shown = "warning"
    /\ (/\ page'.name = "show_forgot_password_form"
        /\ result'.op = "create_password_reset_token"
        /\ result'.ok
        /\ ~page'.email_sent) =>
          /\ \E r \in resetTokens' :
                r.token = result'.token /\ r.user_id = result'.user
          /\ page'.shown = "warning"

\* C20: when create_user succeeds and send_verification_email returns
\* false, the user stays stored, unverified and with its token, and the
\* page shows a warning; when a reset token is created and
\* send_password_reset_email returns false, the token stays stored and the
\* page shows a warning.
C20_DispatcherFailureSurfaced == [][C20_Step]_vars

\* a reset token was created, its email could not be sent, and the page
\* warns while the token is stored
C20_Witness ==
    /\ page = Page("show_forgot_password_form", FALSE, "warning")
    /\ result.op = "create_password_reset_token"
    /\ result.ok
    /\ \E r \in resetTokens : r.token = result.token
    /\ users[result.user].is_verified

\* a session operation: what validate_session_token answers, the expiry
\* create_user_session sets, and which operation removes a row
C21_Step ==
    /\ (result'.op = "validate_session_token" /\ result'.fault = "none") =>
          /\ result'.ok <=>
                \E r \in userSessions :
                   r.session_token = result'.token /\ now <= r.expires_at
          /\ result'.ok =>
                \E r \in userSessions :
                   /\ r.session_token = result'.token
                   /\ r.user_id = result'.user
                   /\ result'.user \in UserIds
    /\ (result'.op = "create_user_session" /\ result'.ok) =>
          userSessions' = userSessions \cup
             {[user_id |-> result'.user, session_token |-> result'.token,
               expires_at |-> now + 720]}
    /\ (userSessions \ userSessions' # {}) => result'.op = "revoke_session"

\* C21: validate_session_token returns a user exactly when a session row
\* with the token exists and the time is not after its expires_at, the
\* issue time plus 30 days; an expired session is rejected but its row
\* stays, and only revoke_session removes session rows.
C21_SessionLazyExpiry == [][C21_Step]_vars

\* a session was rejected in the first hour after its expiry and its row
\* is still stored
C21_Witness ==
    /\ result.op = "validate_session_token"
    /\ result.fault = "none"
    /\ ~result.ok
    /\ \E r \in userSessions :
          r.session_token = result.token /\ now = r.expires_at + 1


\* the operations of UserService that write to the store
MutatingOps ==
    {"create_user", "authenticate_user", "verify_email",
     "create_password_reset_token", "reset_password",
     "create_user_session", "revoke_session"}

\* C22: a UserService operation during which the store fails returns a
\* failure value, and if the operation is a mutating one nothing of it is
\* stored and it leaves no pending change in its session.
C22_Step ==
    (result'.op \in MutatingOps /\ result'.fault # "none") =>
        /\ ~result'.ok
        /\ users' = users
        /\ resetTokens' = resetTokens
        /\ userSessions' = userSessions
        /\ dirty' = {}

C22_StoreFailureRolledBack == [][C22_Step]_vars


\* C23: every stored user has a username of 3 to 20 characters, each a
\* letter, a digit, an underscore or a hyphen.
C23_StoredUsernamesValid ==
    \A i \in 1..Len(users) :
       /\ Len(users[i].username) >= 3
       /\ Len(users[i].username) <= 20
       /\ Characters(users[i].username) \subseteq UsernameCharacters


\* a step that stores a password, or a login form that lets the visitor in
C24_Step ==
    /\ (result'.op = "create_user" /\ result'.ok) =>
          Cardinality({q \in Passwords :
                          checkpw(q, users'[result'.user].password_hash)}) = 1
    /\ (/\ result'.op = "authenticate_with_database"
        /\ session_state'.authentication_status = "True") =>
          /\ result'.ok
          /\ checkpw(result'.pw, users[result'.user].password_hash)

\* C24: the hash stored for a password verifies one password and no other,
\* and a login is accepted only by verifying the supplied password against
\* a stored hash, never by comparing it with a stored plaintext password.
C24_PasswordsOnlyHashed == [][C24_Step]_vars


\* the end of a unit of work
C25_Step ==
    /\ result'.op = "get_db_session" =>
          /\ unit'.closes = 1
          /\ unit'.pending = {}
          /\ (result'.ident = None /\ result'.fault = "none") =>
                /\ unit'.persisted = unit.persisted \cup unit.pending
                /\ unit'.outcome = None
          /\ (result'.ident = None /\ result'.fault # "none") =>
                /\ unit'.persisted = unit.persisted
                /\ unit'.outcome = "Exception"
          /\ result'.ident # None =>
                /\ unit'.persisted = unit.persisted
                /\ unit'.outcome = result'.ident
    /\ unit'.closes \in {0, 1}
    /\ unit'.closes = 1 <=> unit'.phase = "closed"
    /\ unit'.persisted # unit.persisted =>
          \/ result'.op = "body_commit"
          \/ result'.op = "get_db_session" /\ result'.ok

\* C25: the session get_db_session opened is closed exactly once when the
\* block ends, however it ends; a body that ends normally has its changes
\* committed; a body that raises has its uncommitted changes dropped and the
\* exception raised again, so that nothing of it is stored but what the body
\* committed itself.
C25_UnitOfWork == [][C25_Step]_vars

\* a body committed one change itself and then raised: the unit is closed
\* once, the change is stored and the exception is passed on
C25_Witness ==
    /\ result.op = "get_db_session"
    /\ result.ident = "Exception"
    /\ unit.phase = "closed"
    /\ unit.closes = 1
    /\ unit.persisted = {"mark_verified"}
    /\ unit.outcome = "Exception"


\* C26: a user's is_verified changes from false to true only in a
\* verify_email call that succeeds with the token stored for that user,
\* made before the token expires.
C26_Step ==
    \A i \in 1..Len(users) :
       (~users[i].is_verified /\ users'[i].is_verified) =>
          /\ result'.op = "verify_email"
          /\ result'.ok
          /\ result'.token = users[i].verification_token
          /\ now <= users[i].verification_expires

C26_VerifiedOnlyByToken == [][C26_Step]_vars


\* C27: no login identifier fits two users: no user's username is another
\* user's email, so the lookup by username or email has at most one match.
C27_IdentifierResolvesOnce ==
    \A i, j \in 1..Len(users) :
       i # j => /\ users[i].username # users[j].email
                /\ users[i].username # users[j].username
                /\ users[i].email # users[j].email


\* a submission of the login form
C28_Step ==
    result'.op = "authenticate_with_database" =>
       /\ (session_state'.authentication_status = "True" /\ ~result'.ok) =>
             /\ result'.msg = ErrServiceUnavailable
             /\ \E user_data \in StaticConfig :
                   /\ user_data.username = session_state'.username
                   /\ user_data.password = result'.pw
                   /\ user_data.name = session_state'.name
       /\ (/\ ~result'.ok
           /\ result'.msg \in {ErrNone, ErrEmailNotVerified,
                               ErrAccountDeactivated}) =>
             /\ session_state'.authentication_status = "False"
             /\ page' = Page("login", FALSE, "error")
       /\ result'.fault = "none" =>
             (session_state'.authentication_status = "True" <=> result'.ok)

\* C28: the login form lets a visitor in on the credentials of config.toml
\* only when authenticate_with_database reported service_unavailable; when
\* the database answers, the form rejects an unknown user, a wrong password,
\* an unverified and a deactivated account without looking at config.toml.
C28_FallbackOnlyWhenUnavailable == [][C28_Step]_vars

\* the database is reachable and turns down an unverified user whose name
\* and password are the ones config.toml may hold: the form rejects
C28_Witness ==
    /\ result.op = "authenticate_with_database"
    /\ result.fault = "none"
    /\ result.msg = ErrEmailNotVerified
    /\ result.pw = "richard09"
    /\ result.user \in 1..Len(users)
    /\ users[result.user].username = "richard"
    /\ session_state.username = "richard"
    /\ session_state.authentication_status = "False"
    /\ page = Page("login", FALSE, "error")


\* the data kept in the session state were produced for the user u
ProducedFor(u) ==
    /\ session_state.df.by \in {u, NoDf.by}
    /\ \A i \in 1..Len(session_state.chat_history) :
          session_state.chat_history[i].by = u
    /\ \A i \in 1..Len(session_state.analysis_count) :
          session_state.analysis_count[i] = u
    /\ \A f \in session_state.processed_files : f.by = u

\* C29: whenever the main app is rendered, the session state names an
\* authenticated user, current_user is that user's login name, and the
\* dataset, the chat history, the analyses counted and the processed files
\* in the session state were all produced for that user.
C29_NoDataAcrossUsers ==
    page.name = "main" =>
       /\ session_state.authentication_status = "True"
       /\ session_state.current_user = session_state.username
       /\ ProducedFor(who(session_state))

\* a dataset was loaded for one user of this browser session, and the main
\* app is now rendered for another with that user's own dataset and analysis
C29_Witness ==
    /\ page.name = "main"
    /\ Cardinality(session_state.seen) = 2
    /\ session_state.df # NoDf
    /\ session_state.df.by = who(session_state)
    /\ Len(session_state.analysis_count) = 1


\* the ids in processed_files
ProcessedIds(state) == {f.file_id : f \in state.processed_files}

\* a script run with a file in the uploader, and any other step
C30_Step ==
    /\ result'.op = "handle_file_upload" =>
          LET file_id == result'.ident
              loaded == result'.ok
          IN /\ file_id \in ProcessedIds(session_state) =>
                   session_state' = session_state
             /\ (file_id \notin ProcessedIds(session_state) /\ loaded) =>
                   /\ ProcessedIds(session_state') =
                         ProcessedIds(session_state) \cup {file_id}
                   /\ session_state'.df.file_id = file_id
             /\ (file_id \notin ProcessedIds(session_state) /\ ~loaded) =>
                   /\ file_id \notin ProcessedIds(session_state')
                   /\ session_state'.processed_files =
                         session_state.processed_files
                   /\ session_state'.df = session_state.df
    /\ (\/ ~(ProcessedIds(session_state') \subseteq
               ProcessedIds(session_state))
        \/ session_state'.df \notin {session_state.df, NoDf}) =>
          /\ result'.op = "handle_file_upload"
          /\ result'.ok
          /\ session_state.authentication_status = "True"

\* C30: handle_file_upload loads a file whose id is not in processed_files
\* and leaves one whose id is there alone; after a successful load the id is
\* in processed_files and the file is the dataset; after a failed load the
\* id is not in processed_files and the dataset and the set are what they
\* were; ids and datasets are only ever added by a successful load for an
\* authenticated user.
C30_FileProcessedOnce == [][C30_Step]_vars

\* a file failed to load while the dataset of another file is kept
C30_Witness ==
    /\ result.op = "handle_file_upload"
    /\ ~result.ok
    /\ result.ident \notin ProcessedIds(session_state)
    /\ session_state.df # NoDf
    /\ session_state.df.file_id # result.ident
    /\ session_state.df.file_id \in ProcessedIds(session_state)
====
